---------------------------- MODULE Spec2Model ----------------------------
(***************************************************************************)
(* Model of the Mebella catalog API (src/main.py, src/schemas.py).         *)
(*                                                                         *)
(* The state is the "product" collection of the document store, the       *)
(* module-level `db` handle, and the position and locals of the seeder    *)
(* (seed_if_empty) in each worker.  The HTTP handlers that make a single  *)
(* store call are one action each; seed_if_empty makes several store      *)
(* calls (count_documents, then one insert per sample product) and is     *)
(* one action per store call, so that two seeders can interleave.         *)
(*                                                                         *)
(* Conventions                                                             *)
(*   - Optional[T] is a sequence of length <= 1: <<>> is None, <<v>> is v. *)
(*   - name, description, search text and id strings are sequences of     *)
(*     one-character strings, so that regex search and id parsing work    *)
(*     on characters.  Cyrillic text of the source is transliterated.     *)
(*   - a request body is a record holding only the keys the client sent.  *)
(***************************************************************************)
EXTENDS Integers, Sequences, FiniteSets, TLC

VARIABLES
    db,         \* TRUE iff the module-level `db` is not None
    store,      \* the "product" collection: sequence of documents, insertion order
    pc,         \* per worker: "off" | "boot" | "idle" | "count" | "insert"
    via,        \* per worker: who called seed_if_empty: "startup" | "endpoint" | "none"
    count,      \* per worker: seed_if_empty's local `count`
    idx,        \* per worker: position of the `for p in products` loop
    inserted,   \* per worker: seed_if_empty's local `inserted`
    result,     \* per worker: the value seed_if_empty last returned
    last,       \* the HTTP request the last step answered, with its response
    faults,     \* store calls of seed_if_empty that may still fail in this behaviour
    hist,       \* history (observation only): prev, the documents the last finished
                \* seeding run added if nothing ran or wrote since; total, the
                \* documents seeding added; raced, whether two runs were ever both
                \* inserting; created, the ids create_product returned with their bodies
    run         \* per worker, its current or last seeding run (observation only):
                \* added, the documents it added; attempts, the inserts it tried;
                \* follows, hist.prev when it began with no other run going;
                \* seen, the number of documents when it counted

vars == <<db, store, pc, via, count, idx, inserted, result, last, faults, hist, run>>

Procs == {"w1", "w2"}

None == <<>>
Some(v) == <<v>>

(***************************************************************************)
(* Bounds of the model.                                                    *)
(***************************************************************************)
\* create-product requests the store accepts in one behaviour
MaxCreated == 1

-----------------------------------------------------------------------------
(***************************************************************************)
(* schemas.py: Variant and Product validation.                             *)
(***************************************************************************)
Has(raw, k) == k \in DOMAIN raw

Get(raw, k, default) == IF Has(raw, k) THEN raw[k] ELSE default

VariantValidNoStock(raw) ==
    /\ Has(raw, "color")
    /\ Has(raw, "price")
    /\ raw.price >= 0

\* Variant: color and price are required, price >= 0, stock >= 0
VariantValid(raw) ==
    /\ Has(raw, "color")
    /\ Has(raw, "price")
    /\ raw.price >= 0
    /\ Get(raw, "stock", 0) >= 0

\* Variant(**raw) once validated: every field present, defaults filled in
Variant(raw) ==
    [color     |-> raw.color,
     color_hex |-> Get(raw, "color_hex", None),
     size      |-> Get(raw, "size", None),
     sku       |-> Get(raw, "sku", None),
     price     |-> raw.price,
     stock     |-> Get(raw, "stock", 0)]

\* Product: name and category are required, base_price >= 0 when present,
\* every variant valid
ProductValid(raw) ==
    /\ Has(raw, "name")
    /\ Has(raw, "category")
    /\ LET bp == Get(raw, "base_price", None)
       IN  bp # None => bp[1] >= 0
    /\ LET vs == Get(raw, "variants", <<>>)
       IN  \A i \in 1..Len(vs) : VariantValid(vs[i])

\* Product(**raw) once validated
Product(raw) ==
    [name         |-> raw.name,
     description  |-> Get(raw, "description", None),
     category     |-> raw.category,
     base_price   |-> Get(raw, "base_price", None),
     images       |-> Get(raw, "images", <<>>),
     variants     |-> LET vs == Get(raw, "variants", <<>>)
                      IN  [i \in 1..Len(vs) |-> Variant(vs[i])],
     brand        |-> Get(raw, "brand", "Mebella"),
     material     |-> Get(raw, "material", None),
     color_family |-> Get(raw, "color_family", None)]

ProductFields ==
    {"name", "description", "category", "base_price", "images", "variants",
     "brand", "material", "color_family"}


-----------------------------------------------------------------------------
(***************************************************************************)
(* Text: case folding and the regular-expression search of list_products.  *)
(***************************************************************************)
UpperCase ==
    <<"A","B","C","D","E","F","G","H","I","J","K","L","M",
      "N","O","P","Q","R","S","T","U","V","W","X","Y","Z">>

LowerCase ==
    <<"a","b","c","d","e","f","g","h","i","j","k","l","m",
      "n","o","p","q","r","s","t","u","v","w","x","y","z">>

LowerOf == [i \in 1..Len(UpperCase) |-> LowerCase[i]]

UpperIndex == [c \in {UpperCase[i] : i \in 1..Len(UpperCase)} |->
                 CHOOSE i \in 1..Len(UpperCase) : UpperCase[i] = c]

\* str.lower() of one character
Lower(c) == IF c \in DOMAIN UpperIndex THEN LowerOf[UpperIndex[c]] ELSE c

\* one pattern character against one text character: "." matches any
\* character, any other character matches itself; option "i" folds case
CharMatch(pch, tch, options) ==
    \/ pch = "."
    \/ IF options = "i" THEN Lower(pch) = Lower(tch) ELSE pch = tch

\* {"$regex": pattern, "$options": options} against a string: the pattern
\* matches somewhere in the text (unanchored)
RegexFind(pattern, text, options) ==
    \E i \in 0..(Len(text) - Len(pattern)) :
        \A j \in 1..Len(pattern) : CharMatch(pattern[j], text[i + j], options)

\* plain case-insensitive substring containment
ContainsFold(text, sub) ==
    \E i \in 0..(Len(text) - Len(sub)) :
        \A j \in 1..Len(sub) : Lower(sub[j]) = Lower(text[i + j])

-----------------------------------------------------------------------------
(***************************************************************************)
(* Identifiers: the store's ObjectId and its string form.  An ObjectId is  *)
(* a number; str() renders it as IdWidth lower-case hex digits (24 in the  *)
(* store, IdWidth here); ObjectId(s) accepts exactly the strings of        *)
(* IdWidth hex digits, in either case.                                     *)
(***************************************************************************)
IdWidth == 2

HexDigits ==
    <<"0","1","2","3","4","5","6","7","8","9","a","b","c","d","e","f">>

RECURSIVE Pow(_, _)
Pow(b, e) == IF e = 0 THEN 1 ELSE b * Pow(b, e - 1)

\* str(ObjectId)
IdStr(oid) ==
    [i \in 1..IdWidth |->
        HexDigits[((oid \div Pow(Len(HexDigits), IdWidth - i)) % Len(HexDigits)) + 1]]

IsHex(c) == \E d \in 1..Len(HexDigits) : HexDigits[d] = Lower(c)

HexValue(c) == (CHOOSE d \in 1..Len(HexDigits) : HexDigits[d] = Lower(c)) - 1

\* whether ObjectId(s) succeeds (it raises InvalidId otherwise)
IdWellFormed(s) == Len(s) = IdWidth /\ \A i \in 1..Len(s) : IsHex(s[i])

RECURSIVE HexNumber(_)
HexNumber(s) ==
    IF s = <<>> THEN 0
    ELSE Len(HexDigits) * HexNumber(SubSeq(s, 1, Len(s) - 1)) + HexValue(s[Len(s)])

\* ObjectId(s) for a well-formed s
ObjectId(s) == HexNumber(s)

-----------------------------------------------------------------------------
(***************************************************************************)
(* The document store adapter (module `database`: db, create_document,    *)
(* get_documents) and the store's own operations.                         *)
(***************************************************************************)
EmptyDict == [k \in {} |-> k]

\* a datetime value and its str()
UtcNow == [datetime |-> "utcnow"]

Str(dt) == dt.datetime

\* the document create_document writes: the data, stamped, under a fresh _id
NewDocument(data) ==
    data @@ [_id |-> Len(store) + 1, created_at |-> UtcNow, updated_at |-> UtcNow]

\* the text a regex clause is matched against (a null field matches nothing)
FieldText(doc, f) ==
    IF f = "name" THEN Some(doc.name) ELSE doc.description

ClauseMatches(doc, clause) ==
    LET text == FieldText(doc, clause.field)
    IN  text # None /\ RegexFind(clause.regex, text[1], clause.options)

\* the store's evaluation of a filter document
Matches(doc, filter_dict) ==
    /\ "category" \in DOMAIN filter_dict => doc.category = filter_dict["category"]
    /\ "$or" \in DOMAIN filter_dict =>
          \E c \in 1..Len(filter_dict["$or"]) : ClauseMatches(doc, filter_dict["$or"][c])

RECURSIVE Filtered(_, _)
Filtered(docs, filter_dict) ==
    IF docs = <<>> THEN <<>>
    ELSE IF Matches(Head(docs), filter_dict)
         THEN <<Head(docs)>> \o Filtered(Tail(docs), filter_dict)
         ELSE Filtered(Tail(docs), filter_dict)

Min(a, b) == IF a < b THEN a ELSE b

\* get_documents("product", filter_dict, limit) when the read succeeds
get_documents(filter_dict, limit) ==
    LET found == Filtered(store, filter_dict)
    IN  SubSeq(found, 1, Min(limit, Len(found)))

\* db["product"].find_one({"_id": oid}): the document, or None
find_one(oid) ==
    IF \E i \in 1..Len(store) : store[i]._id = oid
    THEN Some(store[CHOOSE i \in 1..Len(store) : store[i]._id = oid])
    ELSE None

\* db["product"].count_documents({})
count_documents == Len(store)

-----------------------------------------------------------------------------
(***************************************************************************)
(* main.py: the sample products (text shortened and transliterated, the    *)
(* numbers as in the source).                                              *)
(***************************************************************************)
_sample_products ==
    <<
      [name         |-> <<"S", "t", "u", "l", " ", "N", "o", "r", "d">>,
       description  |-> Some(<<"M", "y", "a", "g", "k", "i", "j", " ", "s", "t", "u", "l">>),
       category     |-> "stulya",
       base_price   |-> Some(4990),
       images       |-> <<"photo-1555041469", "photo-1503602642">>,
       material     |-> Some("buk, tkan"),
       brand        |-> "Mebella",
       color_family |-> Some(<<"bezhevyj", "seryj", "chernyj">>),
       variants     |-> <<
          [color |-> "bezhevyj", color_hex |-> Some("#D8C3A5"), size |-> Some("standart"), sku |-> Some("CH-NOR-BE-STD"), price |-> 4990, stock |-> 25],
          [color |-> "seryj", color_hex |-> Some("#A0A0A0"), size |-> Some("standart"), sku |-> Some("CH-NOR-GR-STD"), price |-> 4990, stock |-> 18],
          [color |-> "chernyj", color_hex |-> Some("#000000"), size |-> Some("standart"), sku |-> Some("CH-NOR-BK-STD"), price |-> 5290, stock |-> 12] >>],
      [name         |-> <<"S", "h", "k", "a", "f", " ", "A", "l", "t", "o">>,
       description  |-> Some(<<"S", "h", "k", "a", "f", " ", "3", "D">>),
       category     |-> "shkafy",
       base_price   |-> Some(24990),
       images       |-> <<"photo-1598300183">>,
       material     |-> Some("LDSP, MDF"),
       brand        |-> "Mebella",
       color_family |-> Some(<<"belyj", "dub">>),
       variants     |-> <<
          [color |-> "belyj", color_hex |-> Some("#FFFFFF"), size |-> Some("200x120x60"), sku |-> Some("WR-AL3-WH-200"), price |-> 24990, stock |-> 8],
          [color |-> "dub", color_hex |-> Some("#C5A572"), size |-> Some("220x140x60"), sku |-> Some("WR-AL3-OK-220"), price |-> 28990, stock |-> 5] >>],
      [name         |-> <<"T", "u", "m", "b", "a", " ", "N", "o", "v", "a">>,
       description  |-> Some(<<"T", "u", "m", "b", "a">>),
       category     |-> "tumby",
       base_price   |-> Some(6990),
       images       |-> <<"photo-1549187774">>,
       material     |-> Some("MDF"),
       brand        |-> "Mebella",
       color_family |-> Some(<<"belyj", "grafit">>),
       variants     |-> <<
          [color |-> "belyj", color_hex |-> Some("#FFFFFF"), size |-> Some("50x40x35"), sku |-> Some("NS-NOV-WH-50"), price |-> 6990, stock |-> 20],
          [color |-> "grafit", color_hex |-> Some("#3B3B3B"), size |-> Some("50x40x35"), sku |-> Some("NS-NOV-GR-50"), price |-> 7290, stock |-> 14] >>],
      [name         |-> <<"S", "t", "o", "l", " ", "L", "o", "f", "t", "+">>,
       description  |-> Some(<<"S", "t", "o", "l", " ", "l", "o", "f", "t">>),
       category     |-> "stoly",
       base_price   |-> Some(19990),
       images       |-> <<"photo-1493666438">>,
       material     |-> Some("Dub, metall"),
       brand        |-> "Mebella",
       color_family |-> Some(<<"dub naturalnyj", "venge">>),
       variants     |-> <<
          [color |-> "dub naturalnyj", color_hex |-> Some("#C8A97E"), size |-> Some("120x70"), sku |-> Some("TB-LOF-NA-120"), price |-> 19990, stock |-> 10],
          [color |-> "dub naturalnyj", color_hex |-> Some("#C8A97E"), size |-> Some("160x80"), sku |-> Some("TB-LOF-NA-160"), price |-> 23990, stock |-> 7],
          [color |-> "venge", color_hex |-> Some("#3E2B23"), size |-> Some("160x80"), sku |-> Some("TB-LOF-WE-160"), price |-> 24990, stock |-> 4] >>]
    >>

NumSamples == Len(_sample_products)

-----------------------------------------------------------------------------
(***************************************************************************)
(* Requests the clients send.                                              *)
(***************************************************************************)
StolX == <<"S", "t", "o", "l", " ", "X">>

\* bodies of POST /api/products
Payloads ==
    { \* the example of the specification: defaults everywhere else
      [name |-> StolX, category |-> "stoly",
       variants |-> <<[color |-> "chernyj", price |-> 1000, stock |-> 5]>>],
      \* every field given, one variant without stock, base_price 0
      [name |-> <<"l", ".", "n">>, description |-> Some(<<"K", "r", "e", "s", "l", "o">>),
       category |-> "", base_price |-> Some(0), images |-> <<"a.png">>,
       variants |-> <<[color |-> "belyj", color_hex |-> Some("#FFFFFF"),
                       size |-> Some("M"), sku |-> Some("KR-1"), price |-> 0]>>,
       brand |-> "Other", material |-> Some("MDF"),
       color_family |-> Some(<<"belyj">>)],
      \* negative variant price
      [name |-> StolX, category |-> "stoly",
       variants |-> <<[color |-> "chernyj", price |-> -1, stock |-> 5]>>],
      \* negative variant stock, in the second variant
      [name |-> StolX, category |-> "stoly",
       variants |-> <<[color |-> "chernyj", price |-> 1000, stock |-> 5],
                      [color |-> "belyj", price |-> 1000, stock |-> -1]>>],
      \* negative base_price
      [name |-> StolX, category |-> "stoly", base_price |-> Some(-1)],
      \* no name
      [category |-> "stoly"] }

\* ?category= of GET /api/products
Categories == {None, Some(""), Some("stoly"), Some("stulya")}

\* ?search= of GET /api/products
Searches ==
    {None, Some(<<"n", "o", "r", "d">>),
     Some(<<"S", "T", "U", "L">>), Some(<<"l", ".", "n">>)}

\* bounds of Query(50, ge=1, le=200)
LimitDefault == 50
LimitMin == 1
LimitMax == 200

\* ?limit= of GET /api/products
Limits == {None} \cup {Some(n) : n \in {LimitMin - 1, LimitMin, LimitMin + 1, LimitMax, LimitMax + 1}}

\* the queries of GET /api/products: every filter with the default limit,
\* every limit without a filter
ListQueries ==
    {<<c, s, None>> : c \in Categories, s \in Searches}
    \cup {<<None, None, l>> : l \in Limits}

\* {product_id} of GET /api/products/{product_id}
ProductIds ==
    {IdStr(n) : n \in 1..(NumSamples + MaxCreated + 1)}
    \cup {[i \in 1..IdWidth |-> "0"] \o <<"0">>,      \* too long
          [i \in 1..IdWidth |-> "z"],                 \* not hex
          [i \in 1..IdWidth |-> IF i = IdWidth THEN "A" ELSE "0"]}

-----------------------------------------------------------------------------
(***************************************************************************)
(* Initial state: the process images after import, before startup, of a   *)
(* deployment that runs the given workers against one store.              *)
(***************************************************************************)
NoRequest == [op |-> "none", args |-> <<>>, status |-> 0, body |-> <<>>, call |-> None]

NoResult == EmptyDict

NoRun == [added |-> 0, attempts |-> 0, follows |-> None, seen |-> None]

InitWith(workers, budget) ==
    /\ db \in BOOLEAN
    /\ store = <<>>
    /\ pc = [p \in Procs |-> IF p \in workers THEN "boot" ELSE "off"]
    /\ via = [p \in Procs |-> "none"]
    /\ count = [p \in Procs |-> 0]
    /\ idx = [p \in Procs |-> 0]
    /\ inserted = [p \in Procs |-> 0]
    /\ result = [p \in Procs |-> NoResult]
    /\ last = NoRequest
    /\ faults = budget
    /\ hist = [prev |-> None, total |-> 0, raced |-> FALSE, created |-> <<>>]
    /\ run = [p \in Procs |-> NoRun]

\* one worker; the store calls of its handlers may fail, those of its
\* seeding do not
Init == InitWith({"w1"}, 0)

\* two workers started together; every insert of one seeding run may fail
InitSeed == InitWith(Procs, NumSamples)

\* some worker has finished its startup and serves requests
Serving == \E p \in Procs : pc[p] \notin {"boot", "off"} /\ via[p] # "startup"

Seeding(p) == pc[p] \in {"count", "insert"}

seedLocals == <<pc, via, count, idx, inserted, result, run>>

\* the outcomes of a handler's store call: TRUE it succeeds, FALSE it raises
Outcomes == IF db THEN BOOLEAN ELSE {TRUE}

\* the outcomes of a store call of seed_if_empty
SeedOutcomes == IF db /\ faults > 0 THEN BOOLEAN ELSE {TRUE}

StoreCall(ok) == faults' = IF ok THEN faults ELSE faults - 1

\* an HTTP response
Respond(op, args, status, body, call) ==
    last' = [op |-> op, args |-> args, status |-> status, body |-> body, call |-> call]

\* a step that answers no request
Silent == last' = NoRequest

HTTPException(status_code, detail) == [status_code |-> status_code, detail |-> detail]

-----------------------------------------------------------------------------
(***************************************************************************)
(* main.py: the handlers that read.                                        *)
(***************************************************************************)
read_root ==
    /\ Serving
    /\ Respond("read_root", <<>>, 200,
               [brand |-> "Mebella", message |-> "Dobro pozhalovat"], None)
    /\ UNCHANGED <<db, store, seedLocals, hist, faults>>

\* the collections the store lists: a collection exists once written to
list_collection_names == IF store = <<>> THEN <<>> ELSE <<"product">>

test_database ==
    /\ Serving
    /\ \E ok \in Outcomes :
          LET database ==
                 IF db
                 THEN IF ok THEN "Connected & Working" ELSE "Connected but Error"
                 ELSE "Available but not initialized"
              response ==
                 [backend |-> "Running",
                  database |-> database,
                  connection_status |-> IF db THEN "Connected" ELSE "Not Connected",
                  collections |-> IF db /\ ok THEN list_collection_names ELSE <<>>]
          IN  Respond("test_database", <<>>, 200, response,
                      IF db THEN Some([op |-> "list_collection_names"]) ELSE None)
    /\ UNCHANGED <<db, store, seedLocals, hist, faults>>

list_categories ==
    /\ Serving
    /\ Respond("list_categories", <<>>, 200,
               <<[key |-> "stulya", label |-> "Stulya"],
                 [key |-> "shkafy", label |-> "Shkafy"],
                 [key |-> "tumby", label |-> "Tumby"],
                 [key |-> "stoly", label |-> "Stoly"]>>, None)
    /\ UNCHANGED <<db, store, seedLocals, hist, faults>>

serializeRaw(doc) ==
    [k \in DOMAIN doc \cup {"id"} |-> IF k = "id" THEN doc._id ELSE doc[k]]

\* `serialize` of list_products and the same lines of get_product:
\* _id leaves the document and comes back as the string id, the
\* timestamps become strings
serialize(doc) ==
    [k \in (DOMAIN doc \ {"_id"}) \cup {"id"} |->
        IF k = "id" THEN IdStr(doc._id)
        ELSE IF k \in {"created_at", "updated_at"} THEN Str(doc[k])
        ELSE doc[k]]

\* Python truth of an Optional[str]: None and the empty string are false
Truthy(opt, empty) == opt # None /\ opt[1] # empty

BuildFilterOverwrite(category, search) ==
    IF Truthy(search, <<>>)
    THEN ("$or" :> <<[field |-> "name", regex |-> search[1], options |-> "i"],
                     [field |-> "description", regex |-> search[1], options |-> "i"]>>)
    ELSE IF Truthy(category, "") THEN [category |-> category[1]] ELSE EmptyDict

\* the filter list_products builds
BuildFilter(category, search) ==
    (IF Truthy(category, "") THEN [category |-> category[1]] ELSE EmptyDict)
    @@
    (IF Truthy(search, <<>>)
     THEN ("$or" :> <<[field |-> "name", regex |-> search[1], options |-> "i"],
                      [field |-> "description", regex |-> search[1], options |-> "i"]>>)
     ELSE EmptyDict)

LimitValidExclusive(limit) ==
    limit = None \/ (limit[1] >= LimitMin /\ limit[1] < LimitMax)

\* Query(50, ge=1, le=200)
LimitValid(limit) == limit = None \/ (limit[1] >= LimitMin /\ limit[1] <= LimitMax)

LimitValue(limit) == IF limit = None THEN LimitDefault ELSE limit[1]

list_products(category, search, limit) ==
    LET args == [category |-> category, search |-> search, limit |-> limit]
    IN
    /\ Serving
    /\ IF ~LimitValid(limit)
       THEN \* rejected by the framework before the handler runs
            Respond("list_products", args, 422, "validation error", None)
       ELSE LET filter_dict == BuildFilter(category, search)
                call == Some([op |-> "find", filter |-> filter_dict,
                              limit |-> LimitValue(limit)])
            IN  \E ok \in Outcomes :
                   IF db /\ ok
                   THEN Respond("list_products", args, 200,
                                LET docs == get_documents(filter_dict, LimitValue(limit))
                                IN  [i \in 1..Len(docs) |-> serialize(docs[i])],
                                call)
                   ELSE Respond("list_products", args, 500,
                                IF db THEN "StoreReadError" ELSE "Database not available",
                                IF db THEN call ELSE None)
    /\ UNCHANGED <<db, store, seedLocals, hist, faults>>

-----------------------------------------------------------------------------
(***************************************************************************)
(* main.py: create_product and get_product.                                *)
(***************************************************************************)
\* a write by somebody else ends every "directly after a finished run"
OtherWriter(id, payload) ==
    /\ hist' = [hist EXCEPT !.prev = None,
                            !.created = Append(@, [id |-> id, payload |-> payload])]
    /\ run' = [q \in Procs |-> IF Seeding(q) THEN [run[q] EXCEPT !.follows = None]
                                ELSE run[q]]

create_product(payload) ==
    /\ Serving
    /\ IF ~ProductValid(payload)
       THEN \* CreateProductRequest fails to validate: the handler never runs
            /\ Respond("create_product", payload, 422, "validation error", None)
            /\ UNCHANGED <<db, store, seedLocals, hist, faults>>
       ELSE LET data == Product(payload)
                call == Some([op |-> "insert", document |-> data])
            IN  \E ok \in Outcomes :
                   /\ UNCHANGED faults
                   /\ IF db /\ ok
                      THEN /\ Len(hist.created) < MaxCreated
                           /\ store' = Append(store, NewDocument(data))
                           /\ Respond("create_product", payload, 200,
                                      [id |-> IdStr(Len(store) + 1)], call)
                           /\ OtherWriter(IdStr(Len(store) + 1), payload)
                           /\ UNCHANGED <<db, pc, via, count, idx, inserted, result>>
                      ELSE /\ Respond("create_product", payload, 500,
                                      IF db THEN "StoreWriteError"
                                      ELSE "Database not available",
                                      IF db THEN call ELSE None)
                           /\ UNCHANGED <<db, store, seedLocals, hist>>

\* the exceptions a handler's `except Exception` clause catches
IsException(exc) ==
    exc \in {"TypeError", "InvalidId", "StoreReadError", "HTTPException"}

\* the body of get_product's try block: what it returns or raises
get_product_try(product_id, ok) ==
    IF ~db
    THEN [raised |-> "TypeError", value |-> "NoneType is not subscriptable"]
    ELSE IF ~IdWellFormed(product_id)
    THEN [raised |-> "InvalidId", value |-> "not a valid ObjectId"]
    ELSE IF ~ok
    THEN [raised |-> "StoreReadError", value |-> "StoreReadError"]
    ELSE LET doc == find_one(ObjectId(product_id))
         IN  IF doc = None
             THEN [raised |-> "HTTPException",
                   value |-> HTTPException(404, "Product not found")]
             ELSE [raised |-> "", value |-> serialize(doc[1])]

get_product(product_id) ==
    /\ Serving
    /\ \E ok \in (IF IdWellFormed(product_id) THEN Outcomes ELSE {TRUE}) :
          LET try == get_product_try(product_id, ok)
              call == IF db /\ IdWellFormed(product_id)
                      THEN Some([op |-> "find_one", id |-> ObjectId(product_id)])
                      ELSE None
          IN  IF try.raised = ""
              THEN Respond("get_product", product_id, 200, try.value, call)
              ELSE IF IsException(try.raised)
              THEN Respond("get_product", product_id, 500, try.raised, call)
              ELSE Respond("get_product", product_id,
                           try.value.status_code, try.value.detail, call)
    /\ UNCHANGED <<db, store, seedLocals, hist, faults>>

-----------------------------------------------------------------------------
(***************************************************************************)
(* main.py: seed_if_empty, its two callers, and its steps.                 *)
(***************************************************************************)
seed_response_lenient(res) ==
    IF ~res.seeded /\ res.reason \in {"already has data", "database not available"}
    THEN [status |-> 200, body |-> res]
    ELSE IF ~res.seeded THEN [status |-> 500, body |-> res]
    ELSE [status |-> 200, body |-> res]

\* seed_endpoint's mapping of seed_if_empty's result to a response
seed_response(res) ==
    IF ~res.seeded /\ res.reason = "already has data" THEN [status |-> 200, body |-> res]
    ELSE IF ~res.seeded THEN [status |-> 500, body |-> res]
    ELSE [status |-> 200, body |-> res]

\* seed_if_empty returns res to `caller`: startup_event drops it,
\* seed_endpoint answers with it
SeedReturn(p, caller, res) ==
    /\ pc' = [pc EXCEPT ![p] = "idle"]
    /\ result' = [result EXCEPT ![p] = res]
    /\ via' = [via EXCEPT ![p] = "none"]
    /\ count' = [count EXCEPT ![p] = 0]
    /\ idx' = [idx EXCEPT ![p] = 0]
    /\ inserted' = [inserted EXCEPT ![p] = 0]
    /\ IF caller = "endpoint"
       THEN Respond("seed_endpoint", <<>>, seed_response(res).status,
                    seed_response(res).body, None)
       ELSE Silent

\* the run of p ends having added `added` documents
RunEnds(p, added) ==
    [hist EXCEPT !.prev = IF \E q \in Procs \ {p} : Seeding(q) THEN None ELSE Some(added)]

\* seed_if_empty is entered: `if db is None: return ...`
SeedEnter(p, caller) ==
    LET follows == IF \E q \in Procs \ {p} : Seeding(q) THEN None ELSE hist.prev
    IN
    IF ~db
    THEN /\ SeedReturn(p, caller, [seeded |-> FALSE, reason |-> "database not available"])
         /\ run' = [run EXCEPT ![p] = [NoRun EXCEPT !.follows = follows]]
         /\ hist' = RunEnds(p, 0)
         /\ UNCHANGED <<db, store, faults>>
    ELSE /\ pc' = [pc EXCEPT ![p] = "count"]
         /\ via' = [via EXCEPT ![p] = caller]
         /\ result' = [result EXCEPT ![p] = NoResult]
         /\ run' = [q \in Procs |->
                      IF q = p THEN [NoRun EXCEPT !.follows = follows]
                      ELSE IF Seeding(q) THEN [run[q] EXCEPT !.follows = None]
                      ELSE run[q]]
         /\ hist' = [hist EXCEPT !.prev = None]
         /\ Silent
         /\ UNCHANGED <<db, store, count, idx, inserted, faults>>

startup_event(p) ==
    /\ pc[p] = "boot"
    /\ SeedEnter(p, "startup")

seed_endpoint(p) ==
    /\ pc[p] = "idle"
    /\ SeedEnter(p, "endpoint")

SeedCheckNone(n) == FALSE

SeedCheckOffByOne(n) == n > 1

\* `if count > 0: return ... "already has data"`
SeedCheck(n) == n > 0

\* count = db["product"].count_documents({}) and the test of it
seed_count(p) ==
    /\ pc[p] = "count"
    /\ \E ok \in SeedOutcomes :
          /\ StoreCall(ok)
          /\ IF ~ok
             THEN \* the outer `except Exception as e`
                  /\ SeedReturn(p, via[p], [seeded |-> FALSE, reason |-> "StoreReadError"])
                  /\ hist' = RunEnds(p, 0)
                  /\ UNCHANGED <<db, store, run>>
             ELSE IF SeedCheck(count_documents)
             THEN /\ SeedReturn(p, via[p],
                                [seeded |-> FALSE, reason |-> "already has data",
                                 count |-> count_documents])
                  /\ hist' = RunEnds(p, 0)
                  /\ run' = [run EXCEPT ![p].seen = Some(Len(store))]
                  /\ UNCHANGED <<db, store>>
             ELSE /\ pc' = [pc EXCEPT ![p] = "insert"]
                  /\ count' = [count EXCEPT ![p] = count_documents]
                  /\ idx' = [idx EXCEPT ![p] = 1]
                  /\ inserted' = [inserted EXCEPT ![p] = 0]
                  /\ hist' = [hist EXCEPT !.raced =
                                 @ \/ \E q \in Procs \ {p} : pc[q] = "insert"]
                  /\ run' = [run EXCEPT ![p].seen = Some(Len(store))]
                  /\ Silent
                  /\ UNCHANGED <<db, store, via, result>>

\* `inserted += 1` follows create_document inside the try block
InsertedAfter(n, ok) == IF ok THEN n + 1 ELSE n

LoopAfterAbort(i, ok) == IF ok THEN i + 1 ELSE NumSamples + 1

\* `except Exception: continue`: the loop goes on to the next product
LoopAfter(i, ok) == i + 1

\* one turn of `for p in products`: create_document("product", p)
seed_insert(p) ==
    /\ pc[p] = "insert"
    /\ \E ok \in SeedOutcomes :
          LET n == InsertedAfter(inserted[p], ok)
              next == LoopAfter(idx[p], ok)
              added == run[p].added + (Len(store') - Len(store))
          IN  /\ StoreCall(ok)
              /\ store' = IF ok THEN Append(store, NewDocument(_sample_products[idx[p]]))
                          ELSE store
              /\ run' = [run EXCEPT ![p].added = added, ![p].attempts = @ + 1]
              /\ IF next > NumSamples
                 THEN /\ SeedReturn(p, via[p], [seeded |-> TRUE, inserted |-> n])
                      /\ hist' = [RunEnds(p, added) EXCEPT
                                     !.total = @ + (Len(store') - Len(store))]
                 ELSE /\ idx' = [idx EXCEPT ![p] = next]
                      /\ inserted' = [inserted EXCEPT ![p] = n]
                      /\ hist' = [hist EXCEPT !.total = @ + (Len(store') - Len(store))]
                      /\ Silent
                      /\ UNCHANGED <<pc, via, count, result>>
    /\ UNCHANGED db

-----------------------------------------------------------------------------
(***************************************************************************)
(* Spec: one worker serving every endpoint.                                *)
(* SpecSeed: two workers on one store that may fail, whose clients trigger  *)
(* seeding, so that seeding runs interleave.                               *)
(***************************************************************************)
SeedSteps ==
    \/ \E p \in Procs : startup_event(p)
    \/ \E p \in Procs : seed_endpoint(p)
    \/ \E p \in Procs : seed_count(p)
    \/ \E p \in Procs : seed_insert(p)

Next ==
    \/ read_root
    \/ test_database
    \/ list_categories
    \/ \E payload \in Payloads : create_product(payload)
    \/ \E q \in ListQueries : list_products(q[1], q[2], q[3])
    \/ \E product_id \in ProductIds : get_product(product_id)
    \/ SeedSteps

Spec == Init /\ [][Next]_vars

NextSeed == SeedSteps

SpecSeed == InitSeed /\ [][NextSeed]_vars

-----------------------------------------------------------------------------
(***************************************************************************)
(* Properties.                                                             *)
(***************************************************************************)
\* worker p's last call of seed_if_empty has returned result[p]
Done(p) == pc[p] = "idle" /\ result[p] # NoResult

Reason(res) == Get(res, "reason", "")

Seeded(res) == Get(res, "seeded", FALSE)

NotAvailable == [seeded |-> FALSE, reason |-> "database not available"]

\* a create-product body with a negative price, stock or base_price
HasNegative(raw) ==
    \/ Get(raw, "base_price", None) # None /\ raw.base_price[1] < 0
    \/ \E i \in 1..Len(Get(raw, "variants", <<>>)) :
          \/ Get(raw.variants[i], "price", 0) < 0
          \/ Get(raw.variants[i], "stock", 0) < 0

Reads == {"read_root", "test_database", "list_products", "get_product", "list_categories"}

\* C1: with the store connected, GET /api/products/{id} answers 404 for a
\* well-formed id that matches no stored product, and 500 for a malformed id.
C1_NotFoundIs404 ==
    (last.op = "get_product" /\ db) =>
        IF IdWellFormed(last.args)
        THEN (\A i \in 1..Len(store) : store[i]._id # ObjectId(last.args))
                => last.status = 404
        ELSE last.status = 500

\* C2 as stated: a seeder call that directly follows a finished seeder call,
\* with no other writer, reports SKIPPED "already has data", and the two
\* together add at most one batch.
C2_SecondCallSkips ==
    \A p \in Procs :
        (Done(p) /\ run[p].follows # None) =>
            /\ ~Seeded(result[p])
            /\ Reason(result[p]) = "already has data"
            /\ run[p].follows[1] + run[p].added <= NumSamples

\* C2 amended: the seeder inserts only after it counted 0 documents; a count
\* above 0 gives SKIPPED "already has data" with that count; two calls in
\* succession add at most one batch together, and the second reports
\* "already has data" whenever the first added a document and the second's
\* count succeeded.
C2_SeedingIdempotent ==
    \A p \in Procs :
        /\ pc[p] = "insert" => count[p] = 0
        /\ run[p].added > 0 => run[p].seen = Some(0)
        /\ (Done(p) /\ run[p].seen # None /\ run[p].seen # Some(0)) =>
              /\ result[p] = [seeded |-> FALSE, reason |-> "already has data",
                              count |-> run[p].seen[1]]
              /\ run[p].added = 0
        /\ (Done(p) /\ run[p].follows # None) =>
              /\ run[p].follows[1] + run[p].added <= NumSamples
              /\ (run[p].follows[1] > 0 /\ run[p].seen # None) =>
                    Reason(result[p]) = "already has data"

\* a second call in succession after a full batch, answered "already has data"
C2_Witness ==
    \E p \in Procs :
        /\ Done(p)
        /\ run[p].follows = Some(NumSamples)
        /\ result[p] = [seeded |-> FALSE, reason |-> "already has data",
                        count |-> NumSamples]

\* C3: a create-product request whose body holds a negative price, stock or
\* base_price is rejected and leaves the stored products as they were.
C3_NegativeRejected ==
    [][(last'.op = "create_product" /\ HasNegative(last'.args)) =>
          (store' = store /\ last'.status = 422 /\ last'.call = None)]_vars

\* a rejected body with a negative stock, the store holding products
C3_Witness ==
    /\ last.op = "create_product"
    /\ \E i \in 1..Len(Get(last.args, "variants", <<>>)) :
          Get(last.args.variants[i], "stock", 0) < 0
    /\ last.status = 422
    /\ store # <<>>

\* C4 as stated: with the store unavailable the seeder returns SKIPPED
\* "database not available" and leaves the store alone, and POST /api/seed
\* answers 500 for no SKIPPED outcome.
C4_SkippedIsNoError ==
    /\ ~db => /\ store = <<>>
              /\ \A p \in Procs : Done(p) => result[p] = NotAvailable
    /\ (last.op = "seed_endpoint" /\ last.status = 500) =>
          Reason(last.body) \notin {"database not available", "already has data"}

\* C4 amended: with the store unavailable the seeder returns SKIPPED
\* "database not available" without a store call; POST /api/seed answers
\* 200 exactly for SEEDED and for SKIPPED "already has data", and 500 for
\* every other outcome, SKIPPED "database not available" included.
C4_SeedEndpointStatus ==
    /\ ~db => /\ store = <<>>
              /\ \A p \in Procs :
                    Done(p) => /\ result[p] = NotAvailable
                               /\ run[p].attempts = 0
                               /\ run[p].seen = None
    /\ last.op = "seed_endpoint" =>
          /\ last.status =
                IF Seeded(last.body) \/ Reason(last.body) = "already has data"
                THEN 200 ELSE 500
          /\ last.status = 500 =>
                Reason(last.body) \in {"database not available", "StoreReadError"}
          /\ Reason(last.body) = "database not available" => last.status = 500

\* POST /api/seed answered 500 for SKIPPED "database not available"
C4_Witness ==
    /\ last.op = "seed_endpoint"
    /\ last.status = 500
    /\ last.body = NotAvailable

\* the example body of the specification
ExamplePayload ==
    [name |-> StolX, category |-> "stoly",
     variants |-> <<[color |-> "chernyj", price |-> 1000, stock |-> 5]>>]

\* C5: create-product of a valid body returns a non-empty id, and
\* get-product by that id returns the validated body's fields, the id as a
\* string under `id`, and no `_id`; the only other answer of either is the
\* 500 of a store call that failed.
C5_CreateThenGet ==
    /\ (last.op = "create_product" /\ db /\ ~HasNegative(last.args)
          /\ Has(last.args, "name") /\ Has(last.args, "category")) =>
          /\ last.status = 200 \/ (last.status = 500 /\ last.body = "StoreWriteError")
          /\ last.status = 200 =>
                /\ Len(last.body.id) > 0
                /\ \E i \in 1..Len(hist.created) :
                      hist.created[i] = [id |-> last.body.id, payload |-> last.args]
    /\ \A i \in 1..Len(hist.created) :
          LET c == hist.created[i]
          IN  (last.op = "get_product" /\ IdWellFormed(last.args)
                 /\ IdStr(ObjectId(last.args)) = c.id) =>
                 /\ last.status = 200 \/ (last.status = 500 /\ last.body = "StoreReadError")
                 /\ last.status = 200 =>
                       /\ "_id" \notin DOMAIN last.body
                       /\ last.body.id = c.id
                       /\ \A f \in ProductFields : last.body[f] = Product(c.payload)[f]
                       /\ c.payload = ExamplePayload =>
                             /\ last.body.name = StolX
                             /\ last.body.category = "stoly"
                             /\ Len(last.body.variants) = 1
                             /\ last.body.variants[1].color = "chernyj"
                             /\ last.body.variants[1].price = 1000
                             /\ last.body.variants[1].stock = 5

\* get-product answered for the id create-product returned for the example body
C5_Witness ==
    /\ last.op = "get_product"
    /\ last.status = 200
    /\ \E i \in 1..Len(hist.created) :
          /\ hist.created[i].id = last.args
          /\ hist.created[i].payload = ExamplePayload

\* the text of a serialized or stored product holds `s`, case folded
TextContains(doc, s) ==
    \/ ContainsFold(doc.name, s)
    \/ doc.description # None /\ ContainsFold(doc.description[1], s)

\* C6 as stated: every product returned for category=c has category c, for
\* every c the caller supplies, and every product returned for search=s
\* holds s in its name or description, case folded.
C6_FilterAsStated ==
    (last.op = "list_products" /\ last.status = 200) =>
        \A i \in 1..Len(last.body) :
            /\ last.args.category # None =>
                  last.body[i].category = last.args.category[1]
            /\ last.args.search # None =>
                  TextContains(last.body[i], last.args.search[1])

\* what list_products is to return of a stored product
Wanted(doc, category, search) ==
    /\ (category # None /\ category[1] # "") => doc.category = category[1]
    /\ (search # None /\ search[1] # <<>>) =>
          \/ RegexFind(search[1], doc.name, "i")
          \/ doc.description # None /\ RegexFind(search[1], doc.description[1], "i")

\* the search text holds no regular-expression metacharacter
Literal(s) == \A j \in 1..Len(s) : s[j] # "."

\* C6 amended: a non-empty category requires equality on the stored
\* category, a non-empty search text requires name or description to match
\* it as a case-insensitive regular expression (containment when the text
\* holds no metacharacter), both are combined with AND, an absent or empty
\* parameter filters nothing; the answer is the matching products in store
\* order, up to the limit.
C6_FilterConstruction ==
    (last.op = "list_products" /\ last.status = 200) =>
        LET category == last.args.category
            search == last.args.search
            limit == IF last.args.limit = None THEN 50 ELSE last.args.limit[1]
            wanted == {k \in 1..Len(store) : Wanted(store[k], category, search)}
        IN  /\ Len(last.body) = Min(limit, Cardinality(wanted))
            /\ \A i \in 1..Len(last.body) :
                  /\ \E k \in wanted : last.body[i].id = IdStr(store[k]._id)
                  /\ (category # None /\ category[1] # "") =>
                        last.body[i].category = category[1]
                  /\ (search # None /\ Literal(search[1])) =>
                        TextContains(last.body[i], search[1])
            /\ \A i, j \in 1..Len(last.body) :
                  i < j => ObjectId(last.body[i].id) < ObjectId(last.body[j].id)
            /\ (search # None /\ Literal(search[1])) =>
                  \A k \in 1..Len(store) :
                      Wanted(store[k], None, search) <=> TextContains(store[k], search[1])

\* category and search both given, one product of several returned
C6_Witness ==
    /\ last.op = "list_products"
    /\ last.status = 200
    /\ last.args.category = Some("stulya")
    /\ last.args.search = Some(<<"S", "T", "U", "L">>)
    /\ Len(last.body) = 1
    /\ Len(store) > NumSamples

\* C7: limit is 50 when omitted; every value from 1 to 200 is accepted and
\* handed to the store as the cap; a value outside is rejected without a
\* store read.
C7_Limit ==
    last.op = "list_products" =>
        LET limit == last.args.limit
        IN  IF limit = None \/ (limit[1] >= 1 /\ limit[1] <= 200)
            THEN /\ last.status # 422
                 /\ db => /\ last.call # None
                          /\ last.call[1].op = "find"
                          /\ last.call[1].limit = IF limit = None THEN 50 ELSE limit[1]
                 /\ last.status = 200 =>
                       Len(last.body) <= (IF limit = None THEN 50 ELSE limit[1])
            ELSE /\ last.status = 422
                 /\ last.call = None

\* limit=200 accepted and answered
C7_Witness ==
    /\ last.op = "list_products"
    /\ last.args.limit = Some(200)
    /\ last.status = 200
    /\ last.call[1].limit = 200

\* C8: a seeding run that counted 0 documents tries every sample product,
\* whichever inserts fail, and returns SEEDED with the number of documents
\* it added.
C8_IndependentInserts ==
    \A p \in Procs :
        /\ (Done(p) /\ run[p].seen = Some(0)) =>
              /\ result[p] = [seeded |-> TRUE, inserted |-> run[p].added]
              /\ run[p].attempts = NumSamples
        /\ (Done(p) /\ Seeded(result[p])) => run[p].seen = Some(0)
        /\ (pc[p] = "insert") => run[p].attempts = idx[p] - 1

\* a run whose first insert failed and whose later inserts went through
C8_Witness ==
    \E p \in Procs :
        /\ Done(p)
        /\ result[p] = [seeded |-> TRUE, inserted |-> NumSamples - 1]
        /\ Len(store) = NumSamples - 1
        /\ store[1].category = "shkafy"

\* C9: more than one batch of sample products is in the store only if two
\* seeding runs were inserting at the same time, and two workers leave at
\* most two batches.
C9_RaceOnly ==
    /\ hist.total > NumSamples => hist.raced
    /\ hist.total <= 2 * NumSamples
    /\ hist.total = Len(store)
    /\ (\A p \in Procs : pc[p] = "insert") => hist.raced

\* both workers counted 0 and both inserted a full batch
C9_Witness ==
    /\ hist.raced
    /\ Len(store) = 2 * NumSamples
    /\ \A p \in Procs : Done(p) /\ result[p] = [seeded |-> TRUE, inserted |-> NumSamples]

\* C10: the stored products only grow, by one document at a time, added by a
\* create-product that answered 200 or by a seeding run that counted 0
\* documents; ids stay and are unique; the reading endpoints leave the store.
C10_AppendOnly ==
    [][/\ Len(store') >= Len(store)
       /\ SubSeq(store', 1, Len(store)) = store
       /\ \A i, j \in 1..Len(store') : store'[i]._id = store'[j]._id => i = j
       /\ store' # store =>
             /\ Len(store') = Len(store) + 1
             /\ \/ last'.op = "create_product" /\ last'.status = 200
                \/ \E p \in Procs : pc[p] = "insert" /\ count[p] = 0
       /\ last'.op \in Reads => store' = store]_vars

\* seeded and created products in the store, a listing just answered
C10_Witness ==
    /\ hist.total = NumSamples
    /\ Len(hist.created) = MaxCreated
    /\ Len(store) = NumSamples + MaxCreated
    /\ last.op = "list_products"
    /\ last.status = 200
    /\ Len(last.body) = Len(store)

=============================================================================
